---- MODULE Spec2Model ----
(***************************************************************************)
(* Model of the solar-bot handoff orchestrator (services/orchestrator.py)  *)
(* and of the handler base class (services/agents/base_agent.py), and of   *)
(* the calendar capabilities (services/agents/calendar_agent.py,           *)
(* services/calendar_service.py).                                          *)
(*                                                                         *)
(* A process_message call is a task.  It runs atomically between its      *)
(* suspension points, which are the awaits on the capability provider and  *)
(* on a capability implementation; calls of different tasks interleave at  *)
(* those points, as coroutines do on one event loop.                       *)
(*                                                                         *)
(* Strings the code takes apart are sequences of tokens: a function name   *)
(* is <<"transfer_to_", "calendar_agent">>, a message is a sequence of     *)
(* words.  A Python dict is a TLA+ function whose DOMAIN is its key set.   *)
(***************************************************************************)
EXTENDS Integers, Sequences, FiniteSets, TLC

VARIABLES
    conversations,    \* user_id -> conversation history (list of entries)
    current_agent,    \* user_id -> name of the active handler, Unset if absent
    handoff_history,  \* user_id -> list of recorded handoffs
    context,          \* user_id -> stored context (extracted contact facts)
    tasks,            \* task -> locals of its process_message call
    env,              \* what the environment has done so far (bounds the run)
    calendar,         \* the backing calendar and the calendar operations done
    solar             \* the solar calculations done

vars ==
    <<conversations, current_agent, handoff_history, context, tasks, env, calendar, solar>>

----------------------------------------------------------------------------
(* Program constants *)

max_handoffs == 5
max_interaction_depth == 5

Solar == <<"solar_agent">>
Calendar == <<"calendar_agent">>
Ghost == <<"ghost_agent">>

\* Orchestrator.agents: the registered handlers
agents == {Solar, Calendar}

\* user_id not in self.current_agent
Unset == <<>>

TransferPrefix == "transfer_to_"

calendar_keywords ==
    { "termin", "buchen", "kalender", "beratung", "treffen", "uhr", "dezember", "januar",
      "februar", "märz", "april", "mai", "juni", "juli", "august", "september",
      "oktober", "november", "9:00", "10:00", "11:00" }

----------------------------------------------------------------------------
(* Bounds of the model *)

\* process_message calls started in a dialogue run
MaxTurns == 2
\* process_message calls started in a ceiling run (more than max_handoffs)
MaxCeilingTurns == 6
\* capability requests the provider makes in a dialogue run
MaxDialogueCaps == 1
\* capability requests the provider makes in a depth run
MaxDepthCaps == 6
\* requests of the attribute "process" the provider makes in a depth run
MaxReentries == 1
\* reset_conversation calls in a run
MaxResets == 1
\* process_message calls started in a facts run
MaxFactTurns == 3
\* capability requests the provider makes in a booking run
MaxBookingCaps == 1

UserIds == {"u1", "u2"}
TaskIds == {1, 2}

\* The kinds of run the environment is drawn from:
\*   dialogue    one user, one call at a time, every turn of a conversation
\*   concurrent  two users, two calls in flight at once
\*   ceiling     one user, calls that hand over until the ceiling is reached
\*   depth       one call, every answer the provider can give, at any depth
\*   facts       one user whose messages carry contact facts
\*   booking     one call in which the provider asks for a booking
Scenarios == {"dialogue", "concurrent", "ceiling", "depth", "facts", "booking"}

TurnBudget(s) ==
    CASE s = "dialogue" -> MaxTurns
      [] s = "concurrent" -> Cardinality(TaskIds)
      [] s = "ceiling" -> MaxCeilingTurns
      [] s = "depth" -> 1
      [] s = "facts" -> MaxFactTurns
      [] s = "booking" -> 1

CapBudget(s) ==
    CASE s = "dialogue" -> MaxDialogueCaps
      [] s = "concurrent" -> MaxDialogueCaps
      [] s = "ceiling" -> 0
      [] s = "depth" -> MaxDepthCaps
      [] s = "facts" -> 0
      [] s = "booking" -> MaxBookingCaps

ReentryBudget(s) == IF s = "depth" THEN MaxReentries ELSE 0

ResetBudget(s) == IF s \in {"dialogue", "concurrent", "facts"} THEN MaxResets ELSE 0

ScenarioUsers(s) == IF s = "concurrent" THEN UserIds ELSE {"u1"}

ScenarioTasks(s) == IF s \in {"dialogue", "depth", "facts", "booking"} THEN {1} ELSE TaskIds

\* messages that carry contact facts ("," is the comma of the text)
FactMessages ==
    { <<"name", "max">>,
      <<"name", "eva", ",", "email", "eva@example.org">>,
      <<"Termin", "telefon", "0301234">> }

\* user messages: a greeting, and one holding a scheduling keyword
ScenarioMessages(s) ==
    CASE s = "dialogue" -> {<<"hallo">>, <<"termin", "bitte">>}
      [] s = "facts" -> FactMessages
      [] s = "booking" -> {<<"termin", "bitte">>}
      [] OTHER -> {<<"hallo">>}

----------------------------------------------------------------------------
(* Python helpers *)

\* d.get(key, default)
Get(d, key, default) == IF key \in DOMAIN d THEN d[key] ELSE default

\* an exception in flight, as a value
Raise(exc) == [raised |-> exc]

IsRaise(v) == "raised" \in DOMAIN v

\* the empty dict
EmptyDict == [k \in {} |-> TRUE]

\* a value that is not there (None / unbound local)
None == [none |-> TRUE]

IsNone(v) == "none" \in DOMAIN v

----------------------------------------------------------------------------
(* The calendar: CalendarService over the backing calendar and the         *)
(* capabilities of CalendarAgent.                                          *)
(*                                                                         *)
(* A date string is [iso, day], day counted from a Monday; a time string   *)
(* is [iso, hour, tz]; iso is FALSE for a text fromisoformat rejects.  A   *)
(* timestamp is [day, hour] in Europe/Berlin.  An event of the backing     *)
(* calendar is the timestamp it starts at.  The calendar client blocks in  *)
(* execute(), so a calendar operation has no suspension point and runs     *)
(* from its call to its return in one step.                                *)

BUSINESS_START == 9
BUSINESS_END == 17
\* weekday() of the first day that is no business day
Saturday == 5
\* hours Europe/Berlin is ahead of UTC (CET)
BerlinOffset == 1
num_suggestions == 3
\* time_windows of suggest_alternatives for preferred_time "any"
time_windows == {<<BUSINESS_START, 12>>, <<13, BUSINESS_END>>}

\* calendar operations in a run of the calendar
MaxCalendarOps == 2
\* passes of the search loop of CalendarService.suggest_alternative followed
MaxScanIterations == 6

InvalidText == [iso |-> FALSE]
DateStr(day) == [iso |-> TRUE, day |-> day]
TimeStr(hour, tz) == [iso |-> TRUE, hour |-> hour, tz |-> tz]

\* the arguments the provider passes to the calendar capabilities
CalendarDates == {DateStr(0), DateStr(5), InvalidText}
CalendarTimes == {TimeStr(10, "naive"), TimeStr(14, "naive"), TimeStr(17, "naive"),
                  TimeStr(9, "utc")}
\* timestamps the service is asked about directly
ServiceTimestamps == {[day |-> d, hour |-> h] : d \in {0, 5}, h \in {8, 10, 17}}
\* datetime.now() during a run of the calendar: early on the first Monday,
\* or at noon of it
NowTimestamps == {[day |-> 0, hour |-> 8], [day |-> 0, hour |-> 12]}
\* what the backing calendar does with the requests of one operation
BackendModes == {"ok", "list_fails", "insert_fails"}
\* the backing calendar during a search for an alternative: as it is, failing,
\* or holding events of its own in every slot asked for
SearchBackends == {"ok", "list_fails", "fully_booked"}
\* the timestamps a search for an alternative begins at
SearchTimestamps == {[day |-> 0, hour |-> 8], [day |-> 0, hour |-> 10]}

weekday(dt) == dt.day % 7

PlusHour(dt) ==
    IF dt.hour = 23 THEN [day |-> dt.day + 1, hour |-> 0]
    ELSE [day |-> dt.day, hour |-> dt.hour + 1]

\* dt.isoformat() of a Berlin timestamp
isoformat(dt) == [iso |-> TRUE, day |-> dt.day, hour |-> dt.hour, tz |-> "berlin"]

\* datetime.fromisoformat of a date, or of a text isoformat made; naive
\* values are localized to Europe/Berlin
fromisoformat(text) ==
    IF ~text.iso THEN Raise("ValueError")
    ELSE [day |-> text.day, hour |-> Get(text, "hour", 0)]

\* CalendarAgent._validate_datetime: localize, or convert to Europe/Berlin
_validate_datetime(date, time) ==
    IF ~date.iso \/ ~time.iso THEN Raise("ValueError")
    ELSE IF time.tz = "utc"
    THEN LET hour == time.hour + BerlinOffset
         IN  IF hour >= 24 THEN [day |-> date.day + 1, hour |-> hour - 24]
             ELSE [day |-> date.day, hour |-> hour]
    ELSE [day |-> date.day, hour |-> time.hour]

\* mutant: every hour of a business day counts
_is_business_hours_any_hour(dt) == weekday(dt) < Saturday

\* CalendarAgent._is_business_hours
_is_business_hours(dt) ==
    weekday(dt) < Saturday /\ BUSINESS_START <= dt.hour /\ dt.hour < BUSINESS_END

\* bool(value) of a dict
Truthy(value) == DOMAIN value # {}

\* events().list between 30 minutes before the start and 30 minutes after
\* the end finds an event: events last an hour and start on the hour
Conflicts(events, start_time) ==
    \E i \in 1..Len(events) :
        /\ events[i].day = start_time.day
        /\ events[i].hour \in (start_time.hour - 1)..(start_time.hour + 1)

\* CalendarService.check_availability: its value (or the exception it lets
\* out) and the timestamps it queried the backing calendar's events for
CalendarService_check_availability(events, start_time, backend) ==
    IF ~(9 <= start_time.hour /\ start_time.hour < 17)
    THEN [value |-> [available |-> FALSE,
                     message |-> <<"Termine sind nur zwischen 9:00 und 17:00 Uhr möglich.">>],
          queried |-> {}]
    ELSE IF weekday(start_time) >= 5
    THEN [value |-> [available |-> FALSE,
                     message |-> <<"Termine sind nur von Montag bis Freitag möglich.">>],
          queried |-> {}]
    ELSE IF backend = "list_fails"
    THEN [value |-> Raise("HttpError"), queried |-> {start_time}]
    ELSE IF backend = "fully_booked" \/ Conflicts(events, start_time)
    THEN [value |-> [available |-> FALSE,
                     message |-> <<"Dieser Termin ist bereits vergeben.">>],
          queried |-> {start_time}]
    ELSE [value |-> [available |-> TRUE, start |-> isoformat(start_time),
                     end |-> isoformat(PlusHour(start_time))],
          queried |-> {start_time}]

\* mutant: the event is inserted without the availability check
create_event_unchecked(events, date, email, backend) ==
    LET start_time == fromisoformat(date)
    IN  IF IsRaise(start_time) \/ backend = "insert_fails"
        THEN [value |-> [success |-> FALSE, error |-> "booking_failed"],
              events |-> events, queried |-> {}]
        ELSE [value |-> [success |-> TRUE, id |-> Len(events) + 1,
                         start |-> isoformat(start_time),
                         end |-> isoformat(PlusHour(start_time))],
              events |-> Append(events, start_time), queried |-> {}]

\* CalendarService.create_event: its value, the events of the backing
\* calendar after it, and the timestamps it queried
create_event(events, date, email, backend) ==
    LET start_time == fromisoformat(date)
    IN  IF IsRaise(start_time)
        THEN [value |-> [success |-> FALSE, error |-> "booking_failed",
                         message |-> <<"Fehler bei der Terminbuchung:", start_time.raised>>],
              events |-> events, queried |-> {}]
        ELSE LET availability ==
                     CalendarService_check_availability(events, start_time, backend)
             IN  IF IsRaise(availability.value)
                 THEN [value |-> [success |-> FALSE, error |-> "booking_failed",
                                  message |-> <<"Fehler bei der Terminbuchung:",
                                                availability.value.raised>>],
                       events |-> events, queried |-> availability.queried]
                 ELSE IF ~Get(availability.value, "available", FALSE)
                 THEN [value |-> availability.value, events |-> events,
                       queried |-> availability.queried]
                 ELSE IF backend = "insert_fails"
                 THEN [value |-> [success |-> FALSE, error |-> "calendar_api_error",
                                  message |-> <<"Fehler bei der Kalendererstellung:",
                                                "HttpError">>],
                       events |-> events, queried |-> availability.queried]
                 ELSE [value |-> [success |-> TRUE, id |-> Len(events) + 1,
                                  start |-> isoformat(start_time),
                                  end |-> isoformat(PlusHour(start_time))],
                       events |-> Append(events, start_time),
                       queried |-> availability.queried]

\* CalendarService.create_appointment
create_appointment(events, datetime, email, name, backend) ==
    create_event(events, isoformat(datetime), email, backend)

\* the morning of the next business day
NextBusinessMorning(dt) ==
    LET day == dt.day + 1
    IN  [day |-> IF weekday([day |-> day]) = 5 THEN day + 2
                 ELSE IF weekday([day |-> day]) = 6 THEN day + 1
                 ELSE day,
         hour |-> BUSINESS_START]

\* the while loop of CalendarAgent.suggest_alternatives
RECURSIVE ScanAlternatives(_, _, _, _, _)
ScanAlternatives(events, backend, current_dt, suggestions, queried) ==
    IF Len(suggestions) >= num_suggestions
    THEN [value |-> [success |-> TRUE, suggestions |-> suggestions], queried |-> queried]
    ELSE LET asked == /\ _is_business_hours(current_dt)
                      /\ \E w \in time_windows :
                            w[1] <= current_dt.hour /\ current_dt.hour < w[2]
             is_available == CalendarService_check_availability(events, current_dt, backend)
         IN  IF asked /\ IsRaise(is_available.value)
             THEN [value |-> [success |-> FALSE, error |-> is_available.value.raised],
                   queried |-> queried \cup is_available.queried]
             ELSE LET found == IF asked /\ Truthy(is_available.value)
                               THEN Append(suggestions, isoformat(current_dt))
                               ELSE suggestions
                      seen == IF asked THEN queried \cup is_available.queried ELSE queried
                      later == PlusHour(current_dt)
                      next_dt == IF Len(found) < num_suggestions /\ later.hour >= BUSINESS_END
                                 THEN NextBusinessMorning(later)
                                 ELSE later
                  IN  ScanAlternatives(events, backend, next_dt, found, seen)

\* CalendarAgent.suggest_alternatives(reference_date)
suggest_alternatives(events, reference_date, backend) ==
    LET ref_dt == fromisoformat(reference_date)
    IN  IF IsRaise(ref_dt)
        THEN [value |-> [success |-> FALSE, error |-> ref_dt.raised], queried |-> {}]
        ELSE ScanAlternatives(events, backend, ref_dt, <<>>, {})

\* CalendarAgent.check_availability(date, time)
CalendarAgent_check_availability(events, date, time, backend) ==
    LET dt == _validate_datetime(date, time)
    IN  IF IsRaise(dt)
        THEN [value |-> [available |-> FALSE, error |-> dt.raised], queried |-> {}]
        ELSE IF ~_is_business_hours(dt)
        THEN LET alternatives == suggest_alternatives(events, date, backend)
             IN  [value |-> [available |-> FALSE,
                             reason |-> <<"Termin außerhalb der Geschäftszeiten (Mo-Fr 9:00-17:00)">>,
                             alternatives |-> alternatives.value],
                  queried |-> alternatives.queried]
        ELSE LET is_available == CalendarService_check_availability(events, dt, backend)
             IN  IF IsRaise(is_available.value)
                 THEN [value |-> [available |-> FALSE, error |-> is_available.value.raised],
                       queried |-> is_available.queried]
                 ELSE IF ~Truthy(is_available.value)
                 THEN LET alternatives == suggest_alternatives(events, date, backend)
                      IN  [value |-> [available |-> FALSE,
                                      reason |-> <<"Termin bereits vergeben">>,
                                      alternatives |-> alternatives.value],
                           queried |-> is_available.queried \cup alternatives.queried]
                 ELSE [value |-> [available |-> TRUE, datetime |-> isoformat(dt)],
                       queried |-> is_available.queried]

\* CalendarAgent.book_appointment(date, time, email, name)
book_appointment(events, date, time, email, name, backend) ==
    LET availability == CalendarAgent_check_availability(events, date, time, backend)
    IN  IF ~Get(availability.value, "available", FALSE)
        THEN [value |-> availability.value, events |-> events,
              queried |-> availability.queried]
        ELSE LET dt == _validate_datetime(date, time)
                 appointment == create_appointment(events, dt, email, name, backend)
             IN  [value |-> [success |-> TRUE,
                             appointment |-> [datetime |-> isoformat(dt), name |-> name,
                                              email |-> email, phone |-> None,
                                              notes |-> None, confirmation_sent |-> TRUE]],
                  events |-> appointment.events,
                  queried |-> availability.queried \cup appointment.queried]

\* what a calendar operation leaves in the record of the run
Report(op, dt, backend, value, queried) ==
    [op |-> op, dt |-> dt, backend |-> backend, value |-> value, queried |-> queried]

----------------------------------------------------------------------------
(* The capability provider's answers (openai_service.process_message)      *)

\* the arguments text of a function_call, by what json.loads makes of it
ArgsInvalid == [json |-> "invalid"]
ArgsArray == [json |-> "array"]
ArgsObject(d) == [json |-> "object", obj |-> d]

json_loads(text) ==
    CASE text.json = "invalid" -> Raise("JSONDecodeError")
      [] text.json = "array" -> [py |-> "list"]
      [] text.json = "object" -> [py |-> "dict", d |-> text.obj]

json_dumps(value) == <<"json", value>>

ReasonArgs == [reason |-> <<"Terminwunsch">>]
ReasonContextArgs ==
    [reason |-> <<"Terminwunsch">>, context |-> [preferred_date |-> <<"Dienstag">>]]
SolarArgs == [yearly_consumption |-> 4000, address |-> <<"Berlin">>]
SlotArgs == [date |-> <<"2024-12-03">>, time |-> <<"10:00">>]
ProcessArgs == [message |-> <<"hallo">>, conversation_history |-> <<>>, depth |-> 0]
\* arguments of book_appointment: all that is required, no email, neither
\* name nor email
BookingArgs ==
    [date |-> DateStr(0), time |-> TimeStr(10, "naive"),
     email |-> <<"eva@example.org">>, name |-> <<"eva">>]
BookingArgsNoEmail == [date |-> DateStr(0), time |-> TimeStr(10, "naive"), name |-> <<"eva">>]
BookingArgsSlotOnly == [date |-> DateStr(0), time |-> TimeStr(10, "naive")]

TransferNames ==
    { <<TransferPrefix, "solar_agent">>, <<TransferPrefix, "calendar_agent">>,
      <<TransferPrefix, "ghost_agent">>,
      <<TransferPrefix, TransferPrefix, "solar_agent">> }

ContentReply == [kind |-> "content", content |-> <<"Antwort">>]
EmptyReply == [kind |-> "empty"]
NoChoicesReply == [kind |-> "nochoices"]
ProviderRaises == [kind |-> "raise"]
FunctionCall(name, arguments) ==
    [kind |-> "function_call", name |-> name, arguments |-> arguments]

TransferCalls ==
    { FunctionCall(n, ArgsObject(ReasonArgs)) : n \in TransferNames }
    \cup { FunctionCall(<<TransferPrefix, "calendar_agent">>, a) :
             a \in {ArgsInvalid, ArgsArray, ArgsObject(EmptyDict),
                    ArgsObject(ReasonContextArgs)} }

CapabilityCalls ==
    { FunctionCall(n, a) :
        n \in {<<"calculate_solar_system">>, <<"check_availability">>},
        a \in {ArgsInvalid, ArgsObject(SolarArgs), ArgsObject(SlotArgs)} }

ReentryCalls == { FunctionCall(<<"process">>, ArgsObject(ProcessArgs)) }

OtherCalls ==
    { FunctionCall(<<"process">>, ArgsObject(EmptyDict)),
      FunctionCall(<<"name">>, ArgsObject(EmptyDict)),
      FunctionCall(<<"_get_functions">>, ArgsObject(EmptyDict)),
      FunctionCall(<<"unknown_function">>, ArgsObject(EmptyDict)) }

\* every answer of the model's provider
\* requests of book_appointment, with and without the contact details
BookingCalls ==
    { FunctionCall(<<"book_appointment">>, ArgsObject(a)) :
        a \in {BookingArgs, BookingArgsNoEmail, BookingArgsSlotOnly} }

ProviderResponses ==
    {ContentReply, EmptyReply, NoChoicesReply, ProviderRaises}
        \cup TransferCalls \cup CapabilityCalls \cup ReentryCalls \cup OtherCalls
        \cup BookingCalls

\* a dialogue run: a reply, a failure, a transfer, a capability of the handler
DialogueResponses ==
    {ContentReply, ProviderRaises}
        \cup { FunctionCall(n, ArgsObject(ReasonArgs)) :
                 n \in { <<TransferPrefix, "solar_agent">>,
                         <<TransferPrefix, "calendar_agent">>,
                         <<TransferPrefix, "ghost_agent">> } }
        \cup { FunctionCall(<<"calculate_solar_system">>, ArgsObject(SolarArgs)),
               FunctionCall(<<"check_availability">>, ArgsObject(SlotArgs)) }

\* a concurrent run: a reply or a transfer to a handler
ConcurrentResponses ==
    {ContentReply}
        \cup { FunctionCall(<<TransferPrefix, a[1]>>, ArgsObject(ReasonArgs)) : a \in agents }

\* a ceiling run: the active handler hands over to the calendar handler, the
\* handler that took over replies
CeilingResponses(phase) ==
    IF phase = 1
    THEN {FunctionCall(<<TransferPrefix, "calendar_agent">>, ArgsObject(ReasonArgs))}
    ELSE {ContentReply}

\* a depth run: any answer to the active handler, a reply to the one that
\* took over
DepthResponses(phase) == IF phase = 1 THEN ProviderResponses ELSE {ContentReply}

\* a booking run: a reply, or a request of book_appointment
BookingResponses == {ContentReply} \cup BookingCalls

\* a facts run: a reply, or a transfer to the calendar handler
FactsResponses ==
    {ContentReply, FunctionCall(<<TransferPrefix, "calendar_agent">>, ArgsObject(ReasonArgs))}

ScenarioResponses(s, phase) ==
    CASE s = "ceiling" -> CeilingResponses(phase)
      [] s = "facts" -> FactsResponses
      [] s = "booking" -> BookingResponses
      [] s = "dialogue" -> DialogueResponses
      [] s = "concurrent" -> ConcurrentResponses
      [] s = "depth" -> DepthResponses(phase)

----------------------------------------------------------------------------
(* BaseAgent: outcomes *)

ErrDepth == [type |-> "error", content |-> <<"Maximale Verarbeitungstiefe erreicht.">>]
ErrProcess(exc) == [type |-> "error", content |-> <<"Verarbeitungsfehler:", exc>>]
ErrResponse == [type |-> "error", content |-> <<"Fehler beim Verarbeiten der Antwort">>]
ErrArguments ==
    [type |-> "error", content |-> <<"Fehler bei der Verarbeitung der Funktionsargumente">>]
ErrExecution(exc) == [type |-> "error", content |-> <<"Fehler bei der Funktionsausführung:", exc>>]
ErrUnavailable(name) == [type |-> "error", content |-> <<"Funktion", name, "nicht verfügbar">>]

\* the async capability methods each handler class defines
Capabilities(agent) ==
    IF agent = Solar
    THEN {<<"calculate_solar_system">>, <<"analyze_efficiency">>}
    ELSE {<<"check_availability">>, <<"book_appointment">>, <<"suggest_alternatives">>,
          <<"modify_appointment">>, <<"cancel_appointment">>}

\* every other attribute of a handler object
OtherAttributes(agent) ==
    { <<"name">>, <<"openai_service">>, <<"functions">>, <<"max_interaction_depth">>,
      <<"_get_functions">>, <<"_get_system_prompt">>, <<"get_handoff_functions">>,
      <<"_handle_response">>, <<"_handle_function_call">> }
    \cup (IF agent = Solar
          THEN {<<"solar_calculator">>, <<"_last_calculation">>,
                <<"_format_calculation_response">>}
          ELSE {<<"calendar_service">>, <<"timezone">>, <<"_validate_datetime">>,
                <<"_is_business_hours">>})

hasattr(agent, name) ==
    name \in Capabilities(agent) \cup OtherAttributes(agent) \cup {<<"process">>}

\* keyword parameters of the methods the model calls: <<required, optional>>
Signature(name) ==
    CASE name = <<"calculate_solar_system">> ->
            <<{"yearly_consumption", "address"}, {"roof_area", "roof_angle", "orientation"}>>
      [] name = <<"analyze_efficiency">> ->
            <<{"system_size"}, {"module_type", "include_battery"}>>
      [] name = <<"check_availability">> -> <<{"date", "time"}, {}>>
      [] name = <<"book_appointment">> ->
            <<{"date", "time", "email", "name"}, {"phone", "notes"}>>
      [] name = <<"suggest_alternatives">> ->
            <<{"reference_date"}, {"preferred_time", "num_suggestions"}>>
      [] name = <<"modify_appointment">> -> <<{"email", "old_datetime", "new_datetime"}, {}>>
      [] name = <<"cancel_appointment">> -> <<{"email", "datetime"}, {"reason"}>>
      [] name = <<"process">> -> <<{"message", "conversation_history"}, {"depth"}>>
      [] OTHER -> <<{}, {}>>

\* method(**arguments) binds
Binds(name, d) ==
    /\ Signature(name)[1] \subseteq DOMAIN d
    /\ DOMAIN d \subseteq Signature(name)[1] \cup Signature(name)[2]

\* function_name.startswith("transfer_to_")
startswith(name, prefix) == Len(name) > 0 /\ name[1] = prefix

\* mutant: only the leading prefix is removed
replace_prefix_only(name, old) ==
    IF Len(name) > 0 /\ name[1] = old THEN Tail(name) ELSE name

\* function_name.replace("transfer_to_", ""): every occurrence goes
replace(name, old) == SelectSeq(name, LAMBDA tok : tok # old)

\* getattr(self, function_name)(**arguments), up to the await
Invoke(agent, name, arguments) ==
    IF arguments.py # "dict" THEN Raise("TypeError")
    ELSE IF name = <<"process">>
    THEN IF Binds(name, arguments.d)
         THEN [do |-> "reenter", depth |-> Get(arguments.d, "depth", 0)]
         ELSE Raise("TypeError")
    ELSE IF name \in Capabilities(agent) /\ Binds(name, arguments.d)
    THEN [do |-> "call", name |-> name, arguments |-> arguments.d]
    ELSE Raise("TypeError")

\* the try block of _handle_function_call, up to the first await
HandleFunctionCallBody(agent, function_call) ==
    LET function_name == function_call.name
        arguments == json_loads(function_call.arguments)
    IN  IF IsRaise(arguments) THEN arguments
        ELSE IF startswith(function_name, TransferPrefix)
        THEN IF arguments.py # "dict" THEN Raise("AttributeError")
             ELSE [do |-> "return",
                   outcome |-> [type |-> "handoff",
                                target_agent |-> replace(function_name, TransferPrefix),
                                reason |-> Get(arguments.d, "reason", <<"Nicht spezifiziert">>),
                                context |-> Get(arguments.d, "context", EmptyDict)]]
        ELSE IF hasattr(agent, function_name)
        THEN Invoke(agent, function_name, arguments)
        ELSE [do |-> "return", outcome |-> ErrUnavailable(function_name)]

\* the except clauses of _handle_function_call
HandleFunctionCallExcept(exc) ==
    IF exc = "JSONDecodeError"
    THEN [do |-> "return", outcome |-> ErrArguments]
    ELSE [do |-> "return", outcome |-> ErrExecution(exc)]

_handle_function_call(agent, function_call) ==
    LET body == HandleFunctionCallBody(agent, function_call)
    IN  IF IsRaise(body) THEN HandleFunctionCallExcept(body.raised) ELSE body

\* the try block of _handle_response
HandleResponseBody(agent, response) ==
    CASE response.kind = "nochoices" -> Raise("IndexError")
      [] response.kind = "function_call" -> _handle_function_call(agent, response)
      [] response.kind = "empty" ->
            [do |-> "return", outcome |-> [type |-> "message", content |-> <<>>, agent |-> agent]]
      [] response.kind = "content" ->
            [do |-> "return",
             outcome |-> [type |-> "message", content |-> response.content, agent |-> agent]]

\* except KeyError in _handle_response: every other exception goes on
_handle_response(agent, response) ==
    LET body == HandleResponseBody(agent, response)
    IN  IF IsRaise(body) /\ body.raised = "KeyError"
        THEN [do |-> "return", outcome |-> ErrResponse]
        ELSE body

\* mutant: process catches KeyError only
ProcessExcept_narrow(exc) ==
    IF exc = "KeyError" THEN [do |-> "return", outcome |-> ErrProcess(exc)] ELSE Raise(exc)

\* except Exception in process
ProcessExcept(exc) == [do |-> "return", outcome |-> ErrProcess(exc)]

\* process(), from the provider's answer to the next await or to its return
ProcessStep(agent, response) ==
    LET body == IF response.kind = "raise" THEN Raise("ProviderError")
                ELSE _handle_response(agent, response)
    IN  IF IsRaise(body) THEN ProcessExcept(body.raised) ELSE body

----------------------------------------------------------------------------
(* BaseAgent: the frames of process()                                      *)
(*                                                                         *)
(* stack is the chain of process() calls that wait on one another: the     *)
(* first frame is the call the coordinator made, a further frame is a      *)
(* process() the provider had the handler call as if it were a capability. *)
(* The recursive call of line 142 is a tail call and stays in its frame.   *)

Frame(depth) == [depth |-> depth, function_name |-> <<>>]

Pop(stack) == SubSeq(stack, 1, Len(stack) - 1)

Top(stack) == stack[Len(stack)]

SetTop(stack, frame) == [stack EXCEPT ![Len(stack)] = frame]

\* the depth test at the head of process()
DepthExceeded(depth) == depth >= max_interaction_depth

\* Resumes the innermost frame with an event and runs the handler to its
\* next await on the provider or to the return of its first frame.
\*   event [ev |-> "outcome", outcome]: the innermost process() returns outcome
\*   event [ev |-> "result", result]: the awaited function returned result
\* Gives the new stack, the entries appended to the coordinator's history
\* list meanwhile, and the outcome once the first frame has returned.
RECURSIVE Resume(_, _)
Resume(stack, event) ==
    IF event.ev = "outcome"
    THEN IF Len(stack) = 1
         THEN [stack |-> <<>>, appended |-> <<>>, returned |-> TRUE, outcome |-> event.outcome]
         ELSE Resume(Pop(stack), [ev |-> "result", result |-> event.outcome])
    ELSE LET top == Top(stack)
             entry == [role |-> "function", name |-> top.function_name,
                       content |-> json_dumps(event.result)]
             \* a nested frame appends to the list its arguments carried
             appended == IF Len(stack) = 1 THEN <<entry>> ELSE <<>>
             depth == top.depth + 1
         IN  IF DepthExceeded(depth)
             THEN LET rest == Resume(stack, [ev |-> "outcome", outcome |-> ErrDepth])
                  IN  [rest EXCEPT !.appended = appended \o @]
             ELSE [stack |-> SetTop(stack, Frame(depth)), appended |-> appended,
                   returned |-> FALSE, outcome |-> None]

\* a call of process(depth) on top of stack
Enter(stack, depth) ==
    IF DepthExceeded(depth)
    THEN Resume(Append(stack, Frame(depth)), [ev |-> "outcome", outcome |-> ErrDepth])
    ELSE [stack |-> Append(stack, Frame(depth)), appended |-> <<>>,
          returned |-> FALSE, outcome |-> None]

----------------------------------------------------------------------------
(* Orchestrator helpers *)

\* str.lower, on the words the model's messages are made of
lower(word) ==
    IF word = "Termin" THEN "termin" ELSE word

\* _detect_initial_agent: a calendar keyword is a word of the lowered message
_detect_initial_agent(message) ==
    IF \E i \in 1..Len(message) : lower(message[i]) \in calendar_keywords
    THEN Calendar
    ELSE Solar

\* mutant: the handler is inferred from every message
_get_current_agent_always_detects(active, message) == _detect_initial_agent(message)

\* _get_current_agent: detects only while the user has no entry
_get_current_agent(active, message) ==
    IF active = Unset THEN _detect_initial_agent(message) ELSE active

\* the value captured after the first word of message equal to key
Captured(message, key) ==
    LET at == CHOOSE i \in 1..Len(message) :
                  /\ message[i] = key
                  /\ \A j \in 1..(i - 1) : message[j] # key
        after == SubSeq(message, at + 1, Len(message))
        stop == IF \E j \in 1..Len(after) : after[j] = ","
                THEN (CHOOSE j \in 1..Len(after) :
                          after[j] = "," /\ \A k \in 1..(j - 1) : after[k] # ",") - 1
                ELSE Len(after)
    IN  SubSeq(after, 1, stop)

\* _extract_contact_info
_extract_contact_info(message) ==
    LET found == { key \in {"name", "email", "phone"} :
                     \E i \in 1..Len(message) :
                        message[i] = (IF key = "phone" THEN "telefon" ELSE key) }
    IN  [key \in found |->
            Captured(message, IF key = "phone" THEN "telefon" ELSE key)]

\* mutant: a stored value is kept when the key comes again
Update_first_wins(d, more) ==
    [key \in DOMAIN d \cup DOMAIN more |-> IF key \in DOMAIN d THEN d[key] ELSE more[key]]

\* dict.update
Update(d, more) ==
    [key \in DOMAIN d \cup DOMAIN more |-> IF key \in DOMAIN more THEN more[key] ELSE d[key]]

\* _record_handoff (the timestamp of the entry is left out)
_record_handoff(log, from_agent, to_agent, reason) ==
    Append(log, [from_agent |-> from_agent, to_agent |-> to_agent, reason |-> reason])

\* mutant: the ceiling test lets one more handoff through
CeilingReached_gt(log) == Len(log) > max_handoffs

\* the ceiling test at the head of _handle_handoff
CeilingReached(log) == Len(log) >= max_handoffs

\* mutant: the target is not looked up in the registry
KnownAgent_any(agent_id) == TRUE

\* the registry test of _handle_handoff
KnownAgent(agent_id) == agent_id \in agents

\* mutant: the refusal names the handler that asked, as an accepted handoff
\* names its target
CeilingRefusal_with_agent(current_agent_id) ==
    [type |-> "error",
     content |-> <<"Zu viele Agentenübergaben. Bitte starten Sie eine neue Anfrage.">>,
     agent |-> current_agent_id]

\* the response of _handle_handoff at the ceiling
CeilingRefusal(current_agent_id) ==
    [type |-> "error",
     content |-> <<"Zu viele Agentenübergaben. Bitte starten Sie eine neue Anfrage.">>]

\* _handle_handoff: the response it returns and what it leaves in
\* handoff_history[user_id] and current_agent[user_id]
_handle_handoff(response, log, active, current_agent_id) ==
    IF CeilingReached(log)
    THEN [handoff_response |-> CeilingRefusal(current_agent_id),
          handoff_history |-> log, current_agent |-> active]
    ELSE LET new_agent_id == response.target_agent
             reason == Get(response, "reason", <<"Nicht spezifiziert">>)
         IN  IF ~KnownAgent(new_agent_id)
             THEN [handoff_response |->
                       [type |-> "error",
                        content |-> <<"Interner Fehler bei der Agentenübergabe.">>],
                   handoff_history |-> log, current_agent |-> active]
             ELSE [handoff_response |->
                       [type |-> "message",
                        content |-> <<"Übergabe an", new_agent_id, "wegen:", reason>>,
                        agent |-> new_agent_id],
                   handoff_history |-> _record_handoff(log, current_agent_id, new_agent_id, reason),
                   current_agent |-> new_agent_id]

\* mutant: process_message catches ValueError only
process_message_except_narrow(exc) ==
    IF exc = "ValueError"
    THEN [type |-> "error", content |-> <<"Ein Fehler ist aufgetreten:", exc>>]
    ELSE Raise(exc)

\* the except clause of process_message
process_message_except(exc) ==
    [type |-> "error", content |-> <<"Ein Fehler ist aufgetreten:", exc>>]

\* the envelope process_message builds when the first handler did not hand off
Envelope(response, current_agent_id, ctx) ==
    [type |-> response.type, content |-> Get(response, "content", <<>>),
     agent |-> current_agent_id, context |-> ctx]

----------------------------------------------------------------------------
(* process_message: a task's locals and the steps between its awaits *)

IdleTask ==
    [pc |-> "idle", user |-> "", message |-> <<>>, current_agent_id |-> Unset,
     phase |-> 0, running |-> Unset, stack |-> <<>>, context |-> EmptyDict,
     response |-> None, handoff_response |-> None, new_response |-> None,
     detached |-> FALSE, caught |-> FALSE, ret |-> None, call_args |-> EmptyDict,
     process_calls |-> 0, provider_calls |-> 0, caps_executed |-> 0, depth0_calls |-> 0]

\* mutant: the new entries are put in front of the list
Add_in_front(tk, hist, entries) == IF tk.detached THEN hist ELSE entries \o hist

\* conversation_history.append: a list the store no longer holds takes the
\* entries out of sight
Add(tk, hist, entries) == IF tk.detached THEN hist ELSE hist \o entries

\* return value: the call is over
Finish(tk, value, caught) ==
    [tk EXCEPT !.pc = "done", !.stack = <<>>, !.ret = value, !.caught = caught]

\* await self.openai_service.process_message(...)
AwaitProvider(tk, stack) ==
    [tk EXCEPT !.pc = "provider", !.stack = stack, !.provider_calls = @ + 1]

\* a handler's process(depth = 0) is called by the coordinator
CallProcess(tk, agent, phase) ==
    [tk EXCEPT !.phase = phase, !.running = agent, !.process_calls = @ + 1,
               !.depth0_calls = @ + 1,
               !.provider_calls = 0, !.caps_executed = 0]

\* lines 174-180: the handler that took over has returned outcome
AfterSecond(tk, outcome, hist, active, log) ==
    LET tk1 == [tk EXCEPT !.new_response = outcome]
    IN  IF IsRaise(outcome)
        THEN [task |-> Finish(tk1, process_message_except(outcome.raised), TRUE),
              history |-> hist, current_agent |-> active, handoff_history |-> log]
        ELSE [task |-> Finish(tk1, outcome, FALSE),
              history |-> Add(tk, hist,
                              << [role |-> "assistant",
                                  content |-> Get(outcome, "content", <<>>),
                                  agent |-> tk.handoff_response.agent] >>),
              current_agent |-> active, handoff_history |-> log]

\* lines 158-193: the active handler has returned outcome
AfterFirst(tk, outcome, hist, active, log) ==
    LET tk1 == [tk EXCEPT !.response = outcome]
    IN  IF IsRaise(outcome)
        THEN [task |-> Finish(tk1, process_message_except(outcome.raised), TRUE),
              history |-> hist, current_agent |-> active, handoff_history |-> log]
        ELSE IF outcome.type = "handoff"
        THEN LET hh == _handle_handoff(outcome, log, active, tk.current_agent_id)
                 handoff_response == hh.handoff_response
                 tk2 == [tk1 EXCEPT !.handoff_response = handoff_response]
                 hist1 == Add(tk, hist, << [role |-> "system",
                                            content |-> handoff_response.content] >>)
             IN  IF \/ "agent" \notin DOMAIN handoff_response
                    \/ handoff_response.agent \notin agents
                 THEN \* handoff_response["agent"] or self.agents[...] raises KeyError
                      [task |-> Finish(tk2, process_message_except("KeyError"), TRUE),
                       history |-> hist1, current_agent |-> hh.current_agent,
                       handoff_history |-> hh.handoff_history]
                 ELSE LET tk3 == CallProcess(tk2, handoff_response.agent, 2)
                          entered == Enter(<<>>, 0)
                      IN  IF entered.returned
                          THEN AfterSecond(tk3, entered.outcome, hist1,
                                           hh.current_agent, hh.handoff_history)
                          ELSE [task |-> AwaitProvider(tk3, entered.stack),
                                history |-> hist1, current_agent |-> hh.current_agent,
                                handoff_history |-> hh.handoff_history]
        ELSE [task |-> Finish(tk1, Envelope(outcome, tk.current_agent_id, tk.context), FALSE),
              history |-> Add(tk, hist,
                              << [role |-> "assistant",
                                  content |-> Get(outcome, "content", <<>>),
                                  agent |-> tk.current_agent_id] >>),
              current_agent |-> active, handoff_history |-> log]

\* the handler has run to its next await (resumed.returned false) or has
\* returned to the coordinator, which then runs on
Continue(tk, resumed, hist, active, log) ==
    LET hist1 == Add(tk, hist, resumed.appended)
    IN  IF ~resumed.returned
        THEN [task |-> AwaitProvider(tk, resumed.stack), history |-> hist1,
              current_agent |-> active, handoff_history |-> log]
        ELSE IF tk.phase = 1
        THEN AfterFirst(tk, resumed.outcome, hist1, active, log)
        ELSE AfterSecond(tk, resumed.outcome, hist1, active, log)

\* mutant: the history is one list for all users
Commit_one_history(t, u, upd) ==
    /\ tasks' = [tasks EXCEPT ![t] = upd.task]
    /\ conversations' = [v \in UserIds |-> upd.history]
    /\ current_agent' = [current_agent EXCEPT ![u] = upd.current_agent]
    /\ handoff_history' = [handoff_history EXCEPT ![u] = upd.handoff_history]

\* writes the outcome of a step of task t for user u into the state
Commit(t, u, upd) ==
    /\ tasks' = [tasks EXCEPT ![t] = upd.task]
    /\ conversations' = [conversations EXCEPT ![u] = upd.history]
    /\ current_agent' = [current_agent EXCEPT ![u] = upd.current_agent]
    /\ handoff_history' = [handoff_history EXCEPT ![u] = upd.handoff_history]

----------------------------------------------------------------------------
(* Actions *)

Init ==
    /\ conversations = [u \in UserIds |-> <<>>]
    /\ current_agent = [u \in UserIds |-> Unset]
    /\ handoff_history = [u \in UserIds |-> <<>>]
    /\ context = [u \in UserIds |-> EmptyDict]
    /\ tasks = [t \in TaskIds |-> IdleTask]
    /\ \E s \in Scenarios :
          env = [scenario |-> s, turns |-> 0, caps |-> 0, reentries |-> 0, resets |-> 0]
    /\ calendar = [events |-> <<>>, reports |-> <<>>, now |-> [day |-> 0, hour |-> 0],
                   search |-> None]
    /\ solar = <<>>

\* process_message, lines 129-153 and process() lines 56-72: from the call
\* to the first await on the provider
ProcessMessage(t, u, message) ==
    /\ t \in ScenarioTasks(env.scenario)
    /\ u \in ScenarioUsers(env.scenario)
    /\ message \in ScenarioMessages(env.scenario)
    /\ tasks[t].pc = "idle"
    /\ env.turns < TurnBudget(env.scenario)
    /\ LET contact_info == _extract_contact_info(message)
           stored_context == IF contact_info # EmptyDict
                             THEN Update(context[u], contact_info)
                             ELSE context[u]
           hist == Append(conversations[u], [role |-> "user", content |-> message])
           current_agent_id == _get_current_agent(current_agent[u], message)
           tk == CallProcess([IdleTask EXCEPT !.user = u, !.message = message,
                                              !.current_agent_id = current_agent_id,
                                              !.context = stored_context],
                             current_agent_id, 1)
           entered == Enter(<<>>, 0)
       IN  /\ context' = [context EXCEPT ![u] = stored_context]
           /\ Commit(t, u, Continue(tk, entered, hist, current_agent_id, handoff_history[u]))
    /\ env' = [env EXCEPT !.turns = @ + 1]
    /\ UNCHANGED calendar
    /\ UNCHANGED solar

\* the provider answers the innermost process() of task t, which runs on to
\* its next await or returns; the coordinator then runs to its next await or
\* to its return
ProviderReturns(t, response) ==
    /\ tasks[t].pc = "provider"
    /\ response \in ScenarioResponses(env.scenario, tasks[t].phase)
    /\ LET tk == tasks[t]
           u == tk.user
           step == ProcessStep(tk.running, response)
       IN  IF IsRaise(step)
           THEN \* process() lets the exception out
                /\ Commit(t, u,
                      Continue(tk,
                               IF Len(tk.stack) = 1
                               THEN [stack |-> <<>>, appended |-> <<>>, returned |-> TRUE,
                                     outcome |-> step]
                               ELSE Resume(Pop(tk.stack),
                                           [ev |-> "outcome",
                                            outcome |-> ErrExecution(step.raised)]),
                               conversations[u], current_agent[u], handoff_history[u]))
                /\ UNCHANGED env
           ELSE IF step.do = "call"
           THEN /\ env.caps < CapBudget(env.scenario)
                /\ tasks' = [tasks EXCEPT ![t] =
                       [tk EXCEPT !.pc = "capability",
                                  !.stack = SetTop(@, [Top(@) EXCEPT !.function_name = step.name]),
                                  !.call_args = step.arguments,
                                  !.caps_executed = @ + 1]]
                /\ env' = [env EXCEPT !.caps = @ + 1]
                /\ UNCHANGED <<conversations, current_agent, handoff_history>>
           ELSE IF step.do = "reenter"
           THEN /\ env.reentries < ReentryBudget(env.scenario)
                /\ LET tk1 == [tk EXCEPT
                                  !.stack = SetTop(@, [Top(@) EXCEPT !.function_name = <<"process">>]),
                                  !.depth0_calls = IF step.depth = 0 THEN @ + 1 ELSE @,
                                  !.caps_executed = @ + 1]
                   IN  Commit(t, u, Continue(tk1, Enter(tk1.stack, step.depth),
                                             conversations[u], current_agent[u],
                                             handoff_history[u]))
                /\ env' = [env EXCEPT !.reentries = @ + 1]
           ELSE /\ Commit(t, u,
                      Continue(tk, Resume(tk.stack, [ev |-> "outcome", outcome |-> step.outcome]),
                               conversations[u], current_agent[u], handoff_history[u]))
                /\ UNCHANGED env
    /\ UNCHANGED <<context, calendar>>
    /\ UNCHANGED solar

CapabilityResults == { [success |-> TRUE] }

\* the awaited capability of task t returns a result: lines 134-146
CapabilityReturns(t, result) ==
    /\ tasks[t].pc = "capability"
    /\ Top(tasks[t].stack).function_name # <<"book_appointment">>
    /\ result \in CapabilityResults
    /\ LET tk == tasks[t]
           u == tk.user
       IN  Commit(t, u, Continue(tk, Resume(tk.stack, [ev |-> "result", result |-> result]),
                                 conversations[u], current_agent[u], handoff_history[u]))
    /\ UNCHANGED <<context, env, calendar>>
    /\ UNCHANGED solar

\* the awaited book_appointment of task t runs against the backing calendar
\* and returns its result: lines 132-146
BookingReturns(t, backend) ==
    /\ tasks[t].pc = "capability"
    /\ Top(tasks[t].stack).function_name = <<"book_appointment">>
    /\ LET tk == tasks[t]
           u == tk.user
           done == book_appointment(calendar.events, tk.call_args.date, tk.call_args.time,
                                    tk.call_args.email, tk.call_args.name, backend)
       IN  /\ calendar' = [calendar EXCEPT !.events = done.events]
           /\ Commit(t, u, Continue(tk, Resume(tk.stack, [ev |-> "result", result |-> done.value]),
                                    conversations[u], current_agent[u], handoff_history[u]))
    /\ UNCHANGED <<context, env>>
    /\ UNCHANGED solar

\* the awaited capability of task t raises: lines 160-165
CapabilityRaises(t) ==
    /\ tasks[t].pc = "capability"
    /\ LET tk == tasks[t]
           u == tk.user
           caught == HandleFunctionCallExcept("CapabilityError")
       IN  Commit(t, u, Continue(tk, Resume(tk.stack, [ev |-> "outcome", outcome |-> caught.outcome]),
                                 conversations[u], current_agent[u], handoff_history[u]))
    /\ UNCHANGED <<context, env, calendar>>
    /\ UNCHANGED solar

\* the caller (the /chat endpoint) takes the returned value
Respond(t) ==
    /\ tasks[t].pc = "done"
    /\ tasks' = [tasks EXCEPT ![t] = IdleTask]
    /\ UNCHANGED <<conversations, current_agent, handoff_history, context, env, calendar>>
    /\ UNCHANGED solar

\* mutant: the reset leaves the active handler as it is
reset_conversation_keeps_agent(u) ==
    /\ u \in ScenarioUsers(env.scenario)
    /\ env.resets < ResetBudget(env.scenario)
    /\ conversations' = [conversations EXCEPT ![u] = <<>>]
    /\ handoff_history' = [handoff_history EXCEPT ![u] = <<>>]
    /\ context' = [context EXCEPT ![u] = EmptyDict]
    /\ tasks' = [t \in TaskIds |->
                    IF tasks[t].user = u /\ tasks[t].pc \in {"provider", "capability"}
                    THEN [tasks[t] EXCEPT !.detached = TRUE]
                    ELSE tasks[t]]
    /\ env' = [env EXCEPT !.resets = @ + 1]
    /\ UNCHANGED <<current_agent, calendar>>
    /\ UNCHANGED solar

\* reset_conversation: every per-user entry is replaced by a new object, so
\* a call in flight for the user keeps appending to the list it took
reset_conversation(u) ==
    /\ u \in ScenarioUsers(env.scenario)
    /\ env.resets < ResetBudget(env.scenario)
    /\ conversations' = [conversations EXCEPT ![u] = <<>>]
    /\ current_agent' = [current_agent EXCEPT ![u] = Solar]
    /\ handoff_history' = [handoff_history EXCEPT ![u] = <<>>]
    /\ context' = [context EXCEPT ![u] = EmptyDict]
    /\ tasks' = [t \in TaskIds |->
                    IF tasks[t].user = u /\ tasks[t].pc \in {"provider", "capability"}
                    THEN [tasks[t] EXCEPT !.detached = TRUE]
                    ELSE tasks[t]]
    /\ env' = [env EXCEPT !.resets = @ + 1]
    /\ UNCHANGED calendar
    /\ UNCHANGED solar

\* get_conversation_summary: reading the current agent stores one
get_conversation_summary(u) ==
    /\ env.scenario \in {"dialogue", "concurrent"}
    /\ u \in ScenarioUsers(env.scenario)
    /\ current_agent' = [current_agent EXCEPT ![u] = _get_current_agent(@, <<>>)]
    /\ UNCHANGED <<conversations, handoff_history, context, tasks, env, calendar>>
    /\ UNCHANGED solar

Next ==
    \/ \E t \in TaskIds, u \in UserIds :
          \E message \in ScenarioMessages(env.scenario) : ProcessMessage(t, u, message)
    \/ \E t \in TaskIds : \E response \in ProviderResponses : ProviderReturns(t, response)
    \/ \E t \in TaskIds : \E result \in CapabilityResults : CapabilityReturns(t, result)
    \/ \E t \in TaskIds : \E backend \in BackendModes : BookingReturns(t, backend)
    \/ \E t \in TaskIds : CapabilityRaises(t)
    \/ \E t \in TaskIds : Respond(t)
    \/ \E u \in UserIds : reset_conversation(u)
    \/ \E u \in UserIds : get_conversation_summary(u)

Spec == Init /\ [][Next]_vars

\* the event loop resumes a caller whose call has returned; nothing obliges
\* the provider or a capability's collaborator to answer
SpecFair == Init /\ [][Next]_vars /\ WF_vars(\E t \in TaskIds : Respond(t))

TypeOK ==
    /\ \A t \in TaskIds : tasks[t].pc \in {"idle", "provider", "capability", "done"}
    /\ env.scenario \in Scenarios \cup {"calendar", "solar"}

----------------------------------------------------------------------------
(* The calendar capabilities as operations of their own *)

InitCalendar ==
    /\ conversations = [u \in UserIds |-> <<>>]
    /\ current_agent = [u \in UserIds |-> Unset]
    /\ handoff_history = [u \in UserIds |-> <<>>]
    /\ context = [u \in UserIds |-> EmptyDict]
    /\ tasks = [t \in TaskIds |-> IdleTask]
    /\ env = [scenario |-> "calendar", turns |-> 0, caps |-> 0, reentries |-> 0, resets |-> 0]
    /\ \E now \in NowTimestamps :
          calendar = [events |-> <<>>, reports |-> <<>>, now |-> now, search |-> None]
    /\ solar = <<>>

\* the handler's check_availability capability is called
CheckAvailability(date, time, backend) ==
    /\ IsNone(calendar.search)
    /\ Len(calendar.reports) < MaxCalendarOps
    /\ LET dt == _validate_datetime(date, time)
           done == CalendarAgent_check_availability(calendar.events, date, time, backend)
       IN  calendar' = [calendar EXCEPT
                           !.reports = Append(@, Report("check_availability",
                                                        IF IsRaise(dt) THEN None ELSE dt,
                                                        backend, done.value, done.queried))]
    /\ UNCHANGED <<conversations, current_agent, handoff_history, context, tasks, env>>
    /\ UNCHANGED solar

\* the handler's book_appointment capability is called
BookAppointment(date, time, backend) ==
    /\ IsNone(calendar.search)
    /\ Len(calendar.reports) < MaxCalendarOps
    /\ LET dt == _validate_datetime(date, time)
           done == book_appointment(calendar.events, date, time,
                                    <<"eva@example.org">>, <<"eva">>, backend)
       IN  calendar' = [calendar EXCEPT
                           !.events = done.events,
                           !.reports = Append(@, Report("book_appointment",
                                                        IF IsRaise(dt) THEN None ELSE dt,
                                                        backend, done.value, done.queried))]
    /\ UNCHANGED <<conversations, current_agent, handoff_history, context, tasks, env>>
    /\ UNCHANGED solar

\* CalendarService.check_availability is called with a timestamp
ServiceCheckAvailability(start_time, backend) ==
    /\ IsNone(calendar.search)
    /\ Len(calendar.reports) < MaxCalendarOps
    /\ backend # "insert_fails"
    /\ LET done == CalendarService_check_availability(calendar.events, start_time, backend)
       IN  calendar' = [calendar EXCEPT
                           !.reports = Append(@, Report("service_check_availability",
                                                        start_time, backend,
                                                        done.value, done.queried))]
    /\ UNCHANGED <<conversations, current_agent, handoff_history, context, tasks, env>>
    /\ UNCHANGED solar

\* the handler's suggest_alternatives capability is called
SuggestAlternatives(reference_date, backend) ==
    /\ IsNone(calendar.search)
    /\ Len(calendar.reports) < MaxCalendarOps
    /\ LET ref_dt == fromisoformat(reference_date)
           done == suggest_alternatives(calendar.events, reference_date, backend)
       IN  calendar' = [calendar EXCEPT
                           !.reports = Append(@, Report("suggest_alternatives",
                                                        IF IsRaise(ref_dt) THEN None ELSE ref_dt,
                                                        backend, done.value, done.queried))]
    /\ UNCHANGED <<conversations, current_agent, handoff_history, context, tasks, env>>
    /\ UNCHANGED solar

\* CalendarService.suggest_alternative is called: the search begins at
\* date_time
SuggestAlternativeStarts(date_time, backend) ==
    /\ IsNone(calendar.search)
    /\ Len(calendar.reports) < MaxCalendarOps
    /\ backend \in SearchBackends
    /\ calendar' = [calendar EXCEPT !.search = [date_time |-> date_time,
                                                current_time |-> date_time,
                                                backend |-> backend, iterations |-> 0]]
    /\ UNCHANGED <<conversations, current_agent, handoff_history, context, tasks, env>>
    /\ UNCHANGED solar

\* one pass of the while loop of CalendarService.suggest_alternative; nothing
\* else runs before the loop is left
SuggestAlternativeScans ==
    /\ ~IsNone(calendar.search)
    /\ calendar.search.iterations < MaxScanIterations
    /\ LET search == calendar.search
           availability == CalendarService_check_availability(calendar.events,
                                                              search.current_time,
                                                              search.backend)
       IN  IF IsRaise(availability.value)
           THEN calendar' = [calendar EXCEPT
                                !.search = None,
                                !.reports = Append(@, Report("suggest_alternative",
                                                             search.date_time, search.backend,
                                                             None, availability.queried))]
           ELSE IF Get(availability.value, "available", FALSE)
           THEN calendar' = [calendar EXCEPT
                                !.search = None,
                                !.reports = Append(@, Report("suggest_alternative",
                                                             search.date_time, search.backend,
                                                             search.current_time,
                                                             availability.queried))]
           ELSE calendar' = [calendar EXCEPT
                                !.search.current_time = PlusHour(@),
                                !.search.iterations = @ + 1]
    /\ UNCHANGED <<conversations, current_agent, handoff_history, context, tasks, env>>
    /\ UNCHANGED solar

NextCalendar ==
    \/ \E date \in CalendarDates, time \in CalendarTimes, backend \in BackendModes :
          CheckAvailability(date, time, backend)
    \/ \E date \in CalendarDates, time \in CalendarTimes, backend \in BackendModes :
          BookAppointment(date, time, backend)
    \/ \E start_time \in ServiceTimestamps, backend \in BackendModes :
          ServiceCheckAvailability(start_time, backend)
    \/ \E reference_date \in CalendarDates, backend \in BackendModes :
          SuggestAlternatives(reference_date, backend)
    \/ \E date_time \in SearchTimestamps, backend \in SearchBackends :
          SuggestAlternativeStarts(date_time, backend)
    \/ SuggestAlternativeScans

SpecCalendar == InitCalendar /\ [][NextCalendar]_vars

----------------------------------------------------------------------------
(* The solar calculation: SolarCalculator and the calculate_solar_system   *)
(* capability of SolarAgent.                                               *)
(*                                                                         *)
(* Quantities are fixed-point integers: kWp in hundredths, m2 in           *)
(* thousandths, kWh in units, euros in cents, kg in hundredths, trees in   *)
(* tenths.                                                                 *)

\* calls of the solar capabilities in a run
MaxSolarCalls == 1

\* round(n / d) to the nearest integer, an exact tie to the even one
RoundDiv(n, d) ==
    LET q == n \div d
        r == n % d
    IN  IF 2 * r > d \/ (2 * r = d /\ q % 2 = 1) THEN q + 1 ELSE q

\* what the geocoding service does with the address
GeocodingModes == {"ok", "no_results"}

\* SolarCalculator.get_coordinates
get_coordinates(address, geocoding) ==
    IF geocoding = "ok" THEN [lat |-> 52, lon |-> 13]
    ELSE Raise("Could not get coordinates for address")

\* what the yield-estimation service answers: a yield, a status other than
\* 200, a body without the yield, or no answer but an exception
PvgisReplies ==
    { [raises |-> FALSE, status |-> 200, body |-> [E_y |-> 3800]],
      [raises |-> FALSE, status |-> 200, body |-> EmptyDict],
      [raises |-> FALSE, status |-> 500, body |-> EmptyDict],
      [raises |-> TRUE] }

\* SolarCalculator._calculate_system_size: round(consumption / 1000, 2)
_calculate_system_size(consumption) == RoundDiv(consumption, 10)

\* SolarCalculator._convert_orientation
_convert_orientation(orientation) ==
    CASE orientation = "south" -> 0
      [] orientation = "west" -> 90
      [] orientation = "east" -> 0 - 90
      [] orientation = "north" -> 180
      [] OTHER -> 0

\* SolarCalculator._calculate_fallback_production: peak_power * 1000
_calculate_fallback_production(peak_power) == [yearly_production |-> peak_power * 10]

\* mutant: a failing yield estimation is let out as an exception
_get_pvgis_data_no_fallback(lat, lon, peak_power, angle, aspect, reply) ==
    IF ~reply.raises /\ reply.status = 200 /\ "E_y" \in DOMAIN reply.body
    THEN [yearly_production |-> reply.body.E_y, location |-> [lat |-> lat, lon |-> lon]]
    ELSE Raise("PVGIS")

\* SolarCalculator._get_pvgis_data
_get_pvgis_data(lat, lon, peak_power, angle, aspect, reply) ==
    IF reply.raises THEN _calculate_fallback_production(peak_power)
    ELSE IF reply.status = 200
    THEN IF "E_y" \in DOMAIN reply.body
         THEN [yearly_production |-> reply.body.E_y, location |-> [lat |-> lat, lon |-> lon]]
         ELSE _calculate_fallback_production(peak_power)
    ELSE _calculate_fallback_production(peak_power)

\* SolarCalculator._calculate_financial_savings: 0.32 and 0.08 euros a kWh
_calculate_financial_savings(yearly_production, consumption) ==
    LET self_consumption == IF yearly_production < consumption THEN yearly_production
                            ELSE consumption
        grid_feed_in == IF yearly_production - consumption > 0
                        THEN yearly_production - consumption ELSE 0
    IN  [self_consumption_savings |-> self_consumption * 32,
         feed_in_revenue |-> grid_feed_in * 8,
         total_savings |-> self_consumption * 32 + grid_feed_in * 8]

\* SolarCalculator._calculate_environmental_impact: 0.420 kg a kWh, 20 kg a tree
_calculate_environmental_impact(yearly_production) ==
    [co2_savings |-> yearly_production * 42,
     trees_equivalent |-> RoundDiv(yearly_production * 21, 100)]

\* SolarCalculator.calculate_savings: its value, or the exception it lets out
calculate_savings(consumption, location, roof_angle, orientation, reply) ==
    LET system_size == _calculate_system_size(consumption)
        solar_data == _get_pvgis_data(location.lat, location.lon, system_size, roof_angle,
                                      _convert_orientation(orientation), reply)
    IN  IF IsRaise(solar_data) THEN solar_data
        ELSE [system_size |-> system_size,
              yearly_production |-> solar_data.yearly_production,
              consumption_coverage |->
                  IF consumption > 0
                  THEN [num |-> solar_data.yearly_production * 100, den |-> consumption]
                  ELSE [num |-> 0, den |-> 1],
              financial_savings |->
                  _calculate_financial_savings(solar_data.yearly_production, consumption),
              environmental_impact |->
                  _calculate_environmental_impact(solar_data.yearly_production)]


\* truth of an optional number of the call: absent (None) and 0 are false
NumberTrue(arguments, key) == key \in DOMAIN arguments /\ arguments[key] # 0

\* truth of an optional string of the call: absent (None) and "" are false
StringTrue(arguments, key) == key \in DOMAIN arguments /\ arguments[key] # ""

\* not all([roof_area, roof_angle, orientation])
is_simplified(arguments) ==
    ~(/\ NumberTrue(arguments, "roof_area")
      /\ NumberTrue(arguments, "roof_angle")
      /\ StringTrue(arguments, "orientation"))

\* SolarAgent._format_calculation_response: the heading and the figures of
\* the summary
_format_calculation_response(calculation) ==
    LET simplified == calculation.calculation_type = "simplified"
    IN  [heading |-> IF simplified
                     THEN <<"vereinfachte Berechnung", "35° Dachneigung", "Südausrichtung">>
                     ELSE <<"Ihre spezifischen Dachparameter">>,
         system_size |-> calculation.system_size,
         minimum_roof_area |-> IF simplified
                               THEN calculation.assumptions.minimum_roof_area
                               ELSE calculation.roof_parameters.area * 1000,
         yearly_production |-> calculation.yearly_production,
         total_savings |-> calculation.financial_savings.total_savings,
         invites_details |-> simplified]

\* the tilt and the orientation calculate_solar_system passes to
\* calculate_savings: roof_angle if roof_angle is not None else 35,
\* orientation if orientation else 'south'
YieldParameters(arguments) ==
    [roof_angle |-> Get(arguments, "roof_angle", 35),
     orientation |-> IF StringTrue(arguments, "orientation")
                     THEN arguments.orientation ELSE "south"]

\* SolarAgent.calculate_solar_system(**arguments)
calculate_solar_system(arguments, geocoding, reply) ==
    LET coordinates == get_coordinates(arguments.address, geocoding)
        calculation == calculate_savings(arguments.yearly_consumption, coordinates,
                                         YieldParameters(arguments).roof_angle,
                                         YieldParameters(arguments).orientation,
                                         reply)
    IN  IF IsRaise(coordinates)
        THEN [success |-> FALSE, error |-> [text |-> coordinates.raised]]
        ELSE IF IsRaise(calculation)
        THEN [success |-> FALSE, error |-> [text |-> calculation.raised]]
        ELSE LET needed_area == calculation.system_size * 25
                 typed == [calculation_type |->
                               IF is_simplified(arguments) THEN "simplified" ELSE "detailed"]
                              @@ calculation
             IN  IF is_simplified(arguments)
                 THEN LET results ==
                              [assumptions |-> [roof_angle |-> 35, orientation |-> "south",
                                                minimum_roof_area |-> needed_area]] @@ typed
                      IN  [success |-> TRUE,
                           calculation |->
                               [text_summary |-> _format_calculation_response(results),
                                results |-> results]]
                 ELSE IF arguments.roof_area * 1000 < needed_area
                 THEN [success |-> FALSE,
                       error |-> [text |-> "Die verfügbare Dachfläche ist zu klein",
                                  roof_area |-> arguments.roof_area,
                                  minimum |-> needed_area]]
                 ELSE LET results ==
                              [roof_parameters |-> [area |-> arguments.roof_area,
                                                    angle |-> arguments.roof_angle,
                                                    orientation |-> arguments.orientation]]
                                  @@ typed
                      IN  [success |-> TRUE,
                           calculation |->
                               [text_summary |-> _format_calculation_response(results),
                                results |-> results]]

\* the optional arguments of a call: none or one value of each
Optional(key, values) == IF values = {} THEN EmptyDict ELSE [k \in {key} |-> CHOOSE v \in values : TRUE]

\* the arguments the provider passes to calculate_solar_system
SolarCallArgs ==
    { [yearly_consumption |-> c, address |-> <<"Berlin">>]
          @@ Optional("roof_area", a) @@ Optional("roof_angle", g) @@ Optional("orientation", o) :
        c \in {4000, 10000},
        a \in {{}, {0}, {10}, {30}},
        g \in {{}, {0}, {30}},
        o \in {{}, {"south"}, {"west"}} }

\* the consumptions calculate_savings is called with
Consumptions == {0, 4000, 4006, 10000}

\* SolarAgent.calculate_solar_system is called by the provider's request
CalculateSolarSystem(arguments, geocoding, reply) ==
    /\ Len(solar) < MaxSolarCalls
    /\ solar' = Append(solar, [op |-> "calculate_solar_system", arguments |-> arguments,
                               geocoding |-> geocoding, reply |-> reply,
                               passed |-> YieldParameters(arguments),
                               value |-> calculate_solar_system(arguments, geocoding, reply)])
    /\ UNCHANGED <<conversations, current_agent, handoff_history, context, tasks, env, calendar>>

\* SolarCalculator.calculate_savings is called
CalculateSavings(consumption, roof_angle, orientation, reply) ==
    /\ Len(solar) < MaxSolarCalls
    /\ solar' = Append(solar, [op |-> "calculate_savings", consumption |-> consumption,
                               reply |-> reply,
                               value |-> calculate_savings(consumption,
                                                           get_coordinates(<<"Berlin">>, "ok"),
                                                           roof_angle, orientation, reply)])
    /\ UNCHANGED <<conversations, current_agent, handoff_history, context, tasks, env, calendar>>

InitSolar ==
    /\ conversations = [u \in UserIds |-> <<>>]
    /\ current_agent = [u \in UserIds |-> Unset]
    /\ handoff_history = [u \in UserIds |-> <<>>]
    /\ context = [u \in UserIds |-> EmptyDict]
    /\ tasks = [t \in TaskIds |-> IdleTask]
    /\ env = [scenario |-> "solar", turns |-> 0, caps |-> 0, reentries |-> 0, resets |-> 0]
    /\ calendar = [events |-> <<>>, reports |-> <<>>, now |-> [day |-> 0, hour |-> 0],
                   search |-> None]
    /\ solar = <<>>

NextSolar ==
    \/ \E arguments \in SolarCallArgs, geocoding \in GeocodingModes :
          \E reply \in {r \in PvgisReplies : r.raises \/ "E_y" \in DOMAIN r.body} :
             CalculateSolarSystem(arguments, geocoding, reply)
    \/ \E consumption \in Consumptions, roof_angle \in {0, 35}, reply \in PvgisReplies :
          CalculateSavings(consumption, roof_angle, "south", reply)

SpecSolar == InitSolar /\ [][NextSolar]_vars

----------------------------------------------------------------------------
(* Claims *)

\* the outcome the process() call of the coordinator's current phase gave
ProcessOutcome(tk) == IF tk.phase = 1 THEN tk.response ELSE tk.new_response

\* the coordinator's process() call of task t returns a Handoff in this step
ReturnsHandoff(t) ==
    /\ tasks[t].pc = "provider"
    /\ tasks[t].phase = 1
    /\ "type" \in DOMAIN tasks'[t].response
    /\ tasks'[t].response.type = "handoff"

\* C1: when the active handler's process() returns a Handoff for a user
\* whose handoff_log already holds max_handoffs entries, process_message
\* returns an error, does not invoke the target's process(), and leaves
\* active_handler and handoff_log as they were.
C1_CeilingEnforcement ==
    [][\A t \in TaskIds :
          (/\ ReturnsHandoff(t)
           /\ Len(handoff_history[tasks[t].user]) = max_handoffs)
          => /\ tasks'[t].pc = "done"
             /\ tasks'[t].ret.type = "error"
             /\ tasks'[t].process_calls = tasks[t].process_calls
             /\ IsNone(tasks'[t].new_response)
             /\ current_agent'[tasks[t].user] = current_agent[tasks[t].user]
             /\ handoff_history'[tasks[t].user] = handoff_history[tasks[t].user]]_vars

C1_Witness ==
    \E t \in TaskIds :
        /\ tasks[t].pc = "done"
        /\ "type" \in DOMAIN tasks[t].response
        /\ tasks[t].response.type = "handoff"
        /\ tasks[t].response.target_agent \in agents
        /\ tasks[t].handoff_response.type = "error"
        /\ tasks[t].ret.type = "error"
        /\ Len(handoff_history[tasks[t].user]) = max_handoffs

\* C2: in every reachable state the handoff_log of each user holds at most
\* max_handoffs entries, calls for one user interleaving included.
C2_LogBounded == \A u \in UserIds : Len(handoff_history[u]) <= max_handoffs

C2_Witness ==
    \E u \in UserIds : \E a, b \in TaskIds :
        /\ a # b
        /\ Len(handoff_history[u]) = max_handoffs
        /\ tasks[a].user = u /\ tasks[a].pc = "provider" /\ tasks[a].phase = 2
        /\ tasks[b].user = u /\ tasks[b].pc = "done"
        /\ "type" \in DOMAIN tasks[b].response
        /\ tasks[b].response.type = "handoff"
        /\ tasks[b].handoff_response.type = "error"

\* C3: the value process_message returns has type message or error, never
\* type handoff.
C3_NeverReturnsHandoff ==
    \A t \in TaskIds :
        tasks[t].pc = "done" =>
            /\ "type" \in DOMAIN tasks[t].ret
            /\ tasks[t].ret.type \in {"message", "error"}

\* C4: every value process_message returns carries the four fields type,
\* content, agent and context.
C4_UniformEnvelope ==
    \A t \in TaskIds :
        tasks[t].pc = "done" =>
            {"type", "content", "agent", "context"} \subseteq DOMAIN tasks[t].ret

\* C5: no exception escapes process_message: it returns a tagged value, of
\* type error whenever an exception reached its except clause or the handler
\* whose outcome it returns reported an error.
C5_NoEscape ==
    \A t \in TaskIds :
        tasks[t].pc = "done" =>
            /\ ~IsRaise(tasks[t].ret)
            /\ "type" \in DOMAIN tasks[t].ret
            /\ tasks[t].caught => tasks[t].ret.type = "error"
            /\ ("type" \in DOMAIN ProcessOutcome(tasks[t])
                    /\ ProcessOutcome(tasks[t]).type = "error")
                  => tasks[t].ret.type = "error"

C5_Witness ==
    \E t \in TaskIds :
        /\ tasks[t].pc = "done"
        /\ tasks[t].caught
        /\ tasks[t].ret = process_message_except("KeyError")

\* C6: a handler's process() never raises: whatever the provider answers and
\* whatever a capability does, the outcome the coordinator receives is
\* tagged message, handoff or error.
C6_ProcessNeverRaises ==
    \A t \in TaskIds :
        \A outcome \in {tasks[t].response, tasks[t].new_response} :
            ~IsNone(outcome) =>
                /\ ~IsRaise(outcome)
                /\ outcome.type \in {"message", "handoff", "error"}

C6_Witness ==
    \E t \in TaskIds :
        /\ tasks[t].pc = "done"
        /\ tasks[t].response = ErrProcess("IndexError")

\* C7: one process(depth = 0) call invokes the provider at most
\* max_interaction_depth times and executes at most max_interaction_depth
\* capabilities, whatever the provider requests.
C7_DepthCeiling ==
    \A t \in TaskIds :
        /\ tasks[t].provider_calls <= max_interaction_depth
        /\ tasks[t].caps_executed <= max_interaction_depth

\* the function calls of the provider whose name begins with the prefix
TransferRequests ==
    { r \in ProviderResponses :
        r.kind = "function_call" /\ startswith(r.name, TransferPrefix) }

\* entries of a history that hold a function result
FunctionEntries(hist) == SelectSeq(hist, LAMBDA e : e.role = "function")

\* the process() call the coordinator made for task t gets answer r and
\* neither executes a capability, nor appends a function result, nor
\* awaits the provider again
AnswersAtOnce(t) ==
    /\ tasks'[t].caps_executed = tasks[t].caps_executed
       \/ tasks'[t].phase # tasks[t].phase
    /\ FunctionEntries(conversations'[tasks[t].user])
          = FunctionEntries(conversations[tasks[t].user])
    /\ ~(tasks'[t].pc \in {"provider", "capability"} /\ tasks'[t].phase = tasks[t].phase)

\* C8 as stated: a transfer-prefixed request always gives a Handoff whose
\* target is the name without its prefix and whose reason and context are
\* those of the arguments, with nothing executed, appended or re-invoked.
C8_TransferAlwaysHandoff ==
    [][\A t \in TaskIds : \A r \in TransferRequests :
          (/\ tasks[t].pc = "provider"
           /\ Len(tasks[t].stack) = 1
           /\ ProviderReturns(t, r))
          => LET outcome == IF tasks[t].phase = 1 THEN tasks'[t].response
                            ELSE tasks'[t].new_response
             IN  /\ AnswersAtOnce(t)
                 /\ outcome.type = "handoff"
                 /\ outcome.target_agent = Tail(r.name)]_vars

\* C8 amended: a transfer-prefixed request executes nothing, appends
\* nothing and does not re-invoke the provider; when its arguments parse to
\* a JSON object the outcome is a Handoff whose target is the name with
\* every occurrence of the prefix removed and whose reason and context are
\* those of the arguments or the defaults, otherwise it is an Error.
C8_TransferNeverExecuted ==
    [][\A t \in TaskIds : \A r \in TransferRequests :
          (/\ tasks[t].pc = "provider"
           /\ Len(tasks[t].stack) = 1
           /\ ProviderReturns(t, r))
          => LET outcome == IF tasks[t].phase = 1 THEN tasks'[t].response
                            ELSE tasks'[t].new_response
             IN  /\ AnswersAtOnce(t)
                 /\ IF r.arguments.json = "object"
                    THEN /\ outcome.type = "handoff"
                         /\ outcome.target_agent
                               = SelectSeq(r.name, LAMBDA tok : tok # TransferPrefix)
                         /\ outcome.reason
                               = (IF "reason" \in DOMAIN r.arguments.obj
                                  THEN r.arguments.obj.reason
                                  ELSE <<"Nicht spezifiziert">>)
                         /\ outcome.context
                               = (IF "context" \in DOMAIN r.arguments.obj
                                  THEN r.arguments.obj.context
                                  ELSE EmptyDict)
                    ELSE outcome.type = "error"]_vars

C8_Witness ==
    \E t \in TaskIds :
        /\ "type" \in DOMAIN tasks[t].response
        /\ tasks[t].response.type = "handoff"
        /\ tasks[t].response.target_agent = Calendar
        /\ tasks[t].response.reason = ReasonContextArgs.reason
        /\ tasks[t].response.context = ReasonContextArgs.context
        /\ tasks[t].caps_executed = 0
        /\ FunctionEntries(conversations[tasks[t].user]) = <<>>

\* C9: the active_handler of a user changes only through reset_conversation
\* or through an accepted Handoff that the process() of the currently
\* active handler returned during process_message.
C9_ChangeOnlyByActiveHandoff ==
    [][\A u \in UserIds :
          (current_agent[u] # Unset /\ current_agent'[u] # current_agent[u])
          => \/ /\ env'.resets = env.resets + 1
                /\ current_agent'[u] = Solar
                /\ conversations'[u] = <<>>
                /\ handoff_history'[u] = <<>>
             \/ \E t \in TaskIds :
                   /\ ReturnsHandoff(t)
                   /\ tasks[t].user = u
                   /\ tasks[t].running = current_agent[u]
                   /\ tasks'[t].handoff_response.type = "message"
                   /\ current_agent'[u] = tasks'[t].response.target_agent]_vars

AcceptsHandoff(t) ==
    /\ ReturnsHandoff(t)
    /\ tasks'[t].handoff_response.type = "message"

\* C11: an accepted handoff appends exactly one entry {from = previously
\* active handler, to = target, reason} to the handoff_log, sets the
\* active_handler to the target, appends the system transfer note to the
\* user's history and invokes the target's process() with the same message.
C11_AcceptedHandoffSteps ==
    [][\A t \in TaskIds :
          AcceptsHandoff(t)
          => LET u == tasks[t].user
                 target == tasks'[t].response.target_agent
                 reason == tasks'[t].response.reason
             IN  /\ handoff_history'[u]
                       = Append(handoff_history[u],
                                [from_agent |-> current_agent[u], to_agent |-> target,
                                 reason |-> reason])
                 /\ current_agent'[u] = target
                 /\ conversations'[u]
                       = Append(conversations[u],
                                [role |-> "system",
                                 content |-> <<"Übergabe an", target, "wegen:", reason>>])
                 /\ tasks'[t].pc = "provider"
                 /\ tasks'[t].phase = 2
                 /\ tasks'[t].running = target
                 /\ tasks'[t].message = tasks[t].message
                 /\ tasks'[t].process_calls = tasks[t].process_calls + 1]_vars

\* C12: when a call is refused at the handoff ceiling, the content that
\* process_message returns is the ceiling message of the coordinator, not
\* the description of an exception.
C12_CeilingMessageReturned ==
    \A t \in TaskIds :
        (/\ tasks[t].pc = "done"
         /\ tasks[t].handoff_response = CeilingRefusal(tasks[t].current_agent_id))
        => /\ "content" \in DOMAIN tasks[t].ret
           /\ tasks[t].ret.content = CeilingRefusal(tasks[t].current_agent_id).content
           /\ tasks[t].ret # process_message_except("KeyError")

\* C13: when the active handler's Handoff names a target that is not
\* registered, process_message returns an error whose content is the
\* internal-error message of the coordinator's handoff step, no exception
\* escapes, and active_handler and handoff_log stay as they were.
C13_UnknownTargetRefused ==
    [][\A t \in TaskIds :
          (/\ ReturnsHandoff(t)
           /\ tasks'[t].response.target_agent \notin agents
           /\ Len(handoff_history[tasks[t].user]) < max_handoffs)
          => /\ tasks'[t].pc = "done"
             /\ ~IsRaise(tasks'[t].ret)
             /\ tasks'[t].ret.type = "error"
             /\ tasks'[t].ret.content = <<"Interner Fehler bei der Agentenübergabe.">>
             /\ current_agent'[tasks[t].user] = current_agent[tasks[t].user]
             /\ handoff_history'[tasks[t].user] = handoff_history[tasks[t].user]]_vars

\* the per-user state of u is that of a user never seen, with the default
\* handler active
Cleared(u) ==
    /\ conversations[u] = <<>>
    /\ handoff_history[u] = <<>>
    /\ context[u] = EmptyDict
    /\ current_agent[u] = Solar

\* C14: a reset_conversation step, for a user with or without prior state,
\* leaves that user's history, handoff_log and extracted context empty and
\* the active_handler solar_agent, and touches no other user.
C14_ResetClearsEverything ==
    [][env'.resets = env.resets + 1
          => \E u \in UserIds :
                /\ Cleared(u)'
                /\ \A v \in UserIds \ {u} :
                      /\ conversations'[v] = conversations[v]
                      /\ handoff_history'[v] = handoff_history[v]
                      /\ context'[v] = context[v]
                      /\ current_agent'[v] = current_agent[v]]_vars

\* a user whose finished turn left history, a log entry, facts and the
\* calendar handler has been reset
C14_Witness ==
    \E t \in TaskIds :
        /\ env.resets = 1
        /\ tasks[t].pc = "done"
        /\ ~tasks[t].detached
        /\ tasks[t].context # EmptyDict
        /\ "agent" \in DOMAIN tasks[t].handoff_response
        /\ tasks[t].handoff_response.agent = Calendar
        /\ tasks[t].running = Calendar
        /\ Cleared(tasks[t].user)

\* task t's process_message call starts in this step
StartsCall(t) == tasks[t].pc = "idle" /\ tasks'[t].pc # "idle"

\* the user entries of a history
UserEntries(hist) == SelectSeq(hist, LAMBDA e : e.role = "user")

\* C15: merging the facts of a message into the user's extracted context
\* takes the new value for every key the facts carry, keeps the stored value
\* of every other key, adds no further key, and changes nothing when the
\* facts are already stored (merging the same facts again).
C15_ContextMerge ==
    [][\A t \in TaskIds :
          StartsCall(t)
          => LET u == tasks'[t].user
                 facts == _extract_contact_info(tasks'[t].message)
             IN  /\ DOMAIN context'[u] = DOMAIN context[u] \cup DOMAIN facts
                 /\ \A key \in DOMAIN facts : context'[u][key] = facts[key]
                 /\ \A key \in DOMAIN context[u] \ DOMAIN facts :
                       context'[u][key] = context[u][key]
                 /\ (\A key \in DOMAIN facts :
                        key \in DOMAIN context[u] /\ context[u][key] = facts[key])
                       => context'[u] = context[u]]_vars

\* a name was stored, replaced together with a new email, and the same
\* facts were merged once more
C15_Witness ==
    \E u \in UserIds :
        /\ env.resets = 0
        /\ UserEntries(conversations[u])
              = << [role |-> "user", content |-> <<"name", "max">>],
                   [role |-> "user",
                    content |-> <<"name", "eva", ",", "email", "eva@example.org">>],
                   [role |-> "user",
                    content |-> <<"name", "eva", ",", "email", "eva@example.org">>] >>
        /\ context[u] = [name |-> <<"eva">>, email |-> <<"eva@example.org">>]

IsPrefix(a, b) == Len(a) <= Len(b) /\ SubSeq(b, 1, Len(a)) = a

\* C16: every step of a process_message call and of a handler's process()
\* leaves the user's history as a prefix of the new one; only
\* reset_conversation takes entries away.
C16_AppendOnly ==
    [][\A u \in UserIds :
          env'.resets = env.resets => IsPrefix(conversations[u], conversations'[u])]_vars

\* a history that grew by a user entry, a function result, a transfer note
\* and an assistant reply
C16_Witness ==
    \E u \in UserIds :
        /\ env.resets = 0
        /\ { conversations[u][i].role : i \in 1..Len(conversations[u]) }
              = {"user", "function", "system", "assistant"}

\* task t's process_message call returns in this step
ReturnsCall(t) == tasks[t].pc # "done" /\ tasks'[t].pc = "done"

MatchesKeyword(message) ==
    \E i \in 1..Len(message) : message[i] \in calendar_keywords \cup {"Termin"}

\* C18: a call for a user with no active handler makes calendar_agent the
\* active handler if the message matches a scheduling keyword and
\* solar_agent otherwise; a call for a user with an active handler keeps it,
\* whatever the message holds.
C18_InitialSelection ==
    [][\A t \in TaskIds :
          StartsCall(t)
          => LET u == tasks'[t].user
                 selected == IF MatchesKeyword(tasks'[t].message) THEN Calendar ELSE Solar
                 expected == IF current_agent[u] = Unset THEN selected ELSE current_agent[u]
             IN  /\ tasks'[t].current_agent_id = expected
                 /\ tasks'[t].running = expected
                 /\ current_agent'[u] = expected]_vars

\* the second message of a user holds a keyword and the solar handler,
\* selected by the first, still has the call
C18_Witness ==
    \E t \in TaskIds :
        /\ env.resets = 0
        /\ tasks[t].pc = "provider"
        /\ tasks[t].phase = 1
        /\ tasks[t].message = <<"Termin", "telefon", "0301234">>
        /\ tasks[t].current_agent_id = Solar
        /\ Len(UserEntries(conversations[tasks[t].user])) = 2
        /\ UserEntries(conversations[tasks[t].user])[1].content = <<"name", "max">>

\* the reports of the book_appointment calls of a run
IsBooking(r) == r.op = "book_appointment" /\ ~IsNone(r.dt)

ReportsSuccess(r) == Get(r.value, "success", FALSE)

OutsideBusinessHours(dt) == dt.day % 7 \in {5, 6} \/ dt.hour < 9 \/ dt.hour >= 17

\* C20: check_availability, of the handler and of the service, answers
\* available: false for every timestamp outside Monday to Friday 09:00 to
\* 17:00, and has not queried the backing calendar's events for that
\* timestamp.
C20_BusinessHoursRejection ==
    \A i \in 1..Len(calendar.reports) :
        LET r == calendar.reports[i]
        IN  (/\ r.op \in {"check_availability", "service_check_availability"}
             /\ ~IsNone(r.dt)
             /\ OutsideBusinessHours(r.dt))
            => /\ ~IsRaise(r.value)
               /\ "available" \in DOMAIN r.value
               /\ r.value.available = FALSE
               /\ r.dt \notin r.queried

\* the handler was asked about a Saturday morning and about 17:00 on a
\* Monday; it answered no and offered Monday's first slots
C20_Witness ==
    /\ Len(calendar.reports) = 2
    /\ calendar.reports[1].op = "check_availability"
    /\ calendar.reports[1].dt = [day |-> 5, hour |-> 10]
    /\ calendar.reports[1].value.available = FALSE
    /\ calendar.reports[1].queried = {[day |-> 7, hour |-> h] : h \in {9, 10, 11}}
    /\ calendar.reports[2].op = "check_availability"
    /\ calendar.reports[2].dt = [day |-> 0, hour |-> 17]
    /\ calendar.reports[2].value.available = FALSE

\* timestamp a is earlier than timestamp b
Earlier(a, b) == a.day < b.day \/ (a.day = b.day /\ a.hour < b.hour)

\* C21: no event of the backing calendar starts earlier than the time at
\* which the booking capability created it, whatever date and time the
\* provider passed.
C21_NoPastBooking ==
    \A i \in 1..Len(calendar.events) : ~Earlier(calendar.events[i], calendar.now)

\* requests of book_appointment whose arguments lack the name or the email
IncompleteBookingRequests ==
    { r \in BookingCalls : ~({"name", "email"} \subseteq DOMAIN r.arguments.obj) }

\* C22: when the provider requests book_appointment without the name or the
\* email, no event is created and the outcome of the scheduling handler for
\* the turn is a Message, not an Error.
C22_MissingContactAsksBack ==
    [][\A t \in TaskIds : \A r \in IncompleteBookingRequests :
          (/\ tasks[t].pc = "provider"
           /\ tasks[t].running = Calendar
           /\ ProviderReturns(t, r))
          => /\ calendar'.events = calendar.events
             /\ tasks'[t].pc = "done"
             /\ tasks'[t].response.type = "message"]_vars

\* calls of calculate_solar_system in which geocoding answered
SolarCalls ==
    { i \in 1..Len(solar) :
        solar[i].op = "calculate_solar_system" /\ solar[i].geocoding = "ok" }

\* the roof area of the call is supplied and smaller than system_size x 2.5
RoofTooSmall(arguments) ==
    /\ "roof_area" \in DOMAIN arguments
    /\ arguments.roof_area * 1000 < _calculate_system_size(arguments.yearly_consumption) * 25

\* C23: a call of calculate_solar_system whose roof_area is supplied and
\* smaller than system_size x 2.5 fails, and its message names the minimum
\* area, whether or not roof_angle and orientation are supplied.
C23_InsufficientRoofFails ==
    \A i \in SolarCalls :
        RoofTooSmall(solar[i].arguments)
        => /\ ~solar[i].value.success
           /\ "minimum" \in DOMAIN solar[i].value.error
           /\ solar[i].value.error.minimum =
                 _calculate_system_size(solar[i].arguments.yearly_consumption) * 25

\* the call supplies roof_area, roof_angle and orientation
AllSupplied(arguments) == {"roof_area", "roof_angle", "orientation"} \subseteq DOMAIN arguments

\* the call supplies yearly_consumption and address only
OnlyRequired(arguments) == DOMAIN arguments = {"yearly_consumption", "address"}

\* C24: with yearly_consumption and address only the result is successful,
\* tagged simplified, assumes roof_angle 35 and orientation south and states
\* the minimum roof area system_size x 2.5; with roof_area, roof_angle and
\* orientation all supplied and a sufficient roof_area the result is tagged
\* detailed and has no assumptions key.
C24_SimplifiedVsDetailed ==
    \A i \in SolarCalls :
        LET arguments == solar[i].arguments
            value == solar[i].value
        IN  /\ OnlyRequired(arguments)
               => /\ value.success
                  /\ value.calculation.results.calculation_type = "simplified"
                  /\ value.calculation.results.assumptions.roof_angle = 35
                  /\ value.calculation.results.assumptions.orientation = "south"
                  /\ value.calculation.results.assumptions.minimum_roof_area =
                        _calculate_system_size(arguments.yearly_consumption) * 25
                  /\ value.calculation.text_summary.minimum_roof_area =
                        _calculate_system_size(arguments.yearly_consumption) * 25
            /\ (AllSupplied(arguments) /\ ~RoofTooSmall(arguments))
               => /\ value.success
                  /\ value.calculation.results.calculation_type = "detailed"
                  /\ "assumptions" \notin DOMAIN value.calculation.results

\* the yield estimation gave no yield: an exception, a status other than
\* 200, or a body that cannot be read
YieldFailed(reply) == reply.raises \/ reply.status # 200 \/ "E_y" \notin DOMAIN reply.body

InFlight(t) == tasks[t].pc \in {"provider", "capability"}

\* C26: two process_message calls for the same user never interleave: no
\* call of a user starts while another call of that user has not returned.
C26_PerUserSerialization ==
    \A a, b \in TaskIds :
        (a # b /\ InFlight(a) /\ InFlight(b)) => tasks[a].user # tasks[b].user

\* C27: a process_message call that has started eventually returns, even
\* when the collaborator it waits for never responds.
C27_BoundedResponse ==
    \A t \in TaskIds : InFlight(t) ~> (tasks[t].pc = "done")

\* the report of the calendar operation done in this step
LastReport == calendar'.reports[Len(calendar'.reports)]

\* C28: an event is inserted only by a call that queried the backing
\* calendar for the event's slot, in the same step, and found no conflicting
\* event there and the slot within business hours; a booking for a slot that
\* conflicts or lies outside business hours inserts nothing.
C28_CheckThenCreate ==
    [][/\ calendar'.events # calendar.events
          => /\ Len(calendar'.events) = Len(calendar.events) + 1
             /\ SubSeq(calendar'.events, 1, Len(calendar.events)) = calendar.events
             /\ LET slot == calendar'.events[Len(calendar'.events)]
                IN  /\ slot \in LastReport.queried
                    /\ ~Conflicts(calendar.events, slot)
                    /\ ~OutsideBusinessHours(slot)
       /\ (/\ Len(calendar'.reports) = Len(calendar.reports) + 1
           /\ IsBooking(LastReport)
           /\ ~IsNone(LastReport.dt)
           /\ Conflicts(calendar.events, LastReport.dt) \/ OutsideBusinessHours(LastReport.dt))
          => calendar'.events = calendar.events]_vars

\* one booking inserted an event, and a later booking of a slot that conflicts
\* with it inserted none
C28_Witness ==
    /\ Len(calendar.events) = 1
    /\ \E i, j \in 1..Len(calendar.reports) :
          /\ i < j
          /\ IsBooking(calendar.reports[i]) /\ IsBooking(calendar.reports[j])
          /\ calendar.reports[i].dt = calendar.events[1]
          /\ calendar.reports[j].dt = calendar.events[1]
          /\ calendar.reports[j].backend = "ok"
          /\ calendar.events[1] \in calendar.reports[j].queried

\* requests whose name is neither transfer-prefixed nor a declared capability
\* of the handler
UndeclaredRequests(agent) ==
    { r \in ProviderResponses :
        /\ r.kind = "function_call"
        /\ ~startswith(r.name, TransferPrefix)
        /\ r.name \notin Capabilities(agent) }

\* C29: a requested name that is neither transfer-prefixed nor a declared
\* capability of the handler is never executed: nothing is invoked, no
\* process() is entered, and the outcome of the handler is an error.
C29_UndeclaredNeverExecuted ==
    [][\A t \in TaskIds : \A r \in UndeclaredRequests(tasks[t].running) :
          (tasks[t].pc = "provider" /\ ProviderReturns(t, r))
          => /\ tasks'[t].caps_executed = tasks[t].caps_executed
             /\ tasks'[t].process_calls = tasks[t].process_calls
             /\ tasks'[t].pc # "capability"
             /\ Len(tasks[t].stack) = 1 => ProcessOutcome(tasks'[t]).type = "error"]_vars

\* C30: the search for an alternative slot stops after a bounded number of
\* passes, also when no slot is ever reported free: a search that has made
\* MaxScanIterations passes is no longer running.
C30_SearchTerminates ==
    IsNone(calendar.search) \/ calendar.search.iterations < MaxScanIterations

\* a calendar operation is done in this step and leaves its report
Reports == Len(calendar'.reports) = Len(calendar.reports) + 1

\* C31: every slot suggest_alternatives returns is an open slot: it lies on
\* Monday to Friday with its start hour in 09:00-17:00, the search queried
\* the backing calendar for it, and no event of the calendar conflicts with it.
C31_SuggestionsAreOpen ==
    [][(/\ Reports
        /\ LastReport.op = "suggest_alternatives"
        /\ Get(LastReport.value, "success", FALSE))
       => \A k \in 1..Len(LastReport.value.suggestions) :
             LET slot == LastReport.value.suggestions[k]
             IN  /\ ~OutsideBusinessHours(slot)
                 /\ [day |-> slot.day, hour |-> slot.hour] \in LastReport.queried
                 /\ ~Conflicts(calendar.events, slot)]_vars

\* C32: the handler's check_availability answers available: true for a slot
\* only if the calendar's check of that slot reported it available, and
\* answers available: false when the calendar holds a conflicting event.
C32_AvailabilityFollowsCalendar ==
    [][(/\ Reports
        /\ LastReport.op = "check_availability"
        /\ ~IsNone(LastReport.dt))
       => LET reported == CalendarService_check_availability(calendar.events, LastReport.dt,
                                                             LastReport.backend).value
          IN  /\ Get(LastReport.value, "available", FALSE)
                 => (~IsRaise(reported) /\ Get(reported, "available", FALSE))
              /\ Conflicts(calendar.events, LastReport.dt)
                 => ~Get(LastReport.value, "available", FALSE)]_vars

\* C33: book_appointment returns success: true, with confirmation_sent: true,
\* only if the call inserted an event into the backing calendar; when the
\* slot is unavailable or the backend fails it reports a failure.
C33_SuccessMeansInserted ==
    [][(/\ Reports
        /\ LastReport.op = "book_appointment"
        /\ ReportsSuccess(LastReport))
       => /\ LastReport.value.appointment.confirmation_sent
          /\ Len(calendar'.events) = Len(calendar.events) + 1
          /\ calendar'.events[Len(calendar'.events)] = LastReport.dt]_vars

\* C34: when calculate_solar_system returns a result tagged simplified, the
\* assumptions it discloses are the tilt and the orientation that were passed
\* to the yield calculation.
C34_DisclosedAssumptionsUsed ==
    \A i \in SolarCalls :
        (/\ solar[i].value.success
         /\ solar[i].value.calculation.results.calculation_type = "simplified")
        => /\ solar[i].value.calculation.results.assumptions.roof_angle =
                 solar[i].passed.roof_angle
           /\ solar[i].value.calculation.results.assumptions.orientation =
                 solar[i].passed.orientation

\* user u, the only user of the run, has been reset and has sent nothing since
AfterReset(u) ==
    /\ ScenarioUsers(env.scenario) = {u}
    /\ env.resets > 0
    /\ Cleared(u)

\* C35: the first process_message after reset_conversation(u) selects its
\* handler as it would for a user never seen: calendar_agent for a message
\* with a scheduling keyword, solar_agent otherwise.
C35_ResetIsFresh ==
    [][\A t \in TaskIds :
          (StartsCall(t) /\ AfterReset(tasks'[t].user))
          => tasks'[t].running =
                IF MatchesKeyword(tasks'[t].message) THEN Calendar ELSE Solar]_vars

\* C36: get_conversation_summary changes nothing of the coordinator's state,
\* for a user with state and for a user never seen.
C36_SummaryIsPureRead ==
    [][\A u \in UserIds :
          get_conversation_summary(u)
          => UNCHANGED <<conversations, current_agent, handoff_history, context>>]_vars

\* the step is one of a process_message call for user a, or the reset of a
ActsFor(a) ==
    \/ \E t \in TaskIds :
          /\ tasks'[t] # tasks[t]
          /\ a = IF tasks[t].pc = "idle" THEN tasks'[t].user ELSE tasks[t].user
    \/ reset_conversation(a)

\* C37: a step of process_message for user a, and reset_conversation(a),
\* leave the history, active handler, handoff_log and extracted context of
\* every other user as they are, whatever the outcome and the interleaving.
C37_CrossUserIsolation ==
    [][\A a, b \in UserIds :
          (a # b /\ ActsFor(a))
          => /\ conversations'[b] = conversations[b]
             /\ current_agent'[b] = current_agent[b]
             /\ handoff_history'[b] = handoff_history[b]
             /\ context'[b] = context[b]]_vars

\* u1 has been reset while a call of u2 is waiting and the history of u2
\* holds its message
C37_Witness ==
    /\ env.resets = 1
    /\ Cleared("u1")
    /\ conversations["u2"] # <<>>
    /\ current_agent["u2"] = Solar
    /\ \E t \in TaskIds : tasks[t].user = "u2" /\ tasks[t].pc = "provider" /\ ~tasks[t].detached

\* C38: every entry of a handoff_log records a change of owner: its
\* from_agent differs from its to_agent.
C38_HandoffChangesOwner ==
    \A u \in UserIds : \A i \in 1..Len(handoff_history[u]) :
        handoff_history[u][i].from_agent # handoff_history[u][i].to_agent

\* C39: one process_message call appends at most one entry to the
\* handoff_log (a step appends at most one, and only the step that takes the
\* call from its first handler to its second) and enters process() at depth
\* 0 at most twice; each of the two process() calls of the coordinator asks
\* the provider at most max_interaction_depth times, 10 times in all.
C39_CallIsBounded ==
    [][/\ \A u \in UserIds :
             Len(handoff_history'[u]) > Len(handoff_history[u])
             => /\ Len(handoff_history'[u]) = Len(handoff_history[u]) + 1
                /\ \E t \in TaskIds :
                      tasks[t].user = u /\ tasks[t].phase = 1 /\ tasks'[t].phase = 2
       /\ \A t \in TaskIds :
             /\ tasks'[t].depth0_calls <= 2
             /\ tasks'[t].provider_calls <= max_interaction_depth]_vars

====
